---- MODULE Spec2Model ----
(***************************************************************************)
(* Model of src/src/a_in.py: main() opens a DAQ device, samples every      *)
(* channel once, then polls forever: channel 0 is read as the reference    *)
(* data_vol_max, every further channel is read, unwrapped against its      *)
(* previous sample and printed as an angle.                                *)
(*                                                                         *)
(* Voltages are exact integers on a coarse grid (one unit = one volt).     *)
(* tolerance = data_vol_max * 0.9 is kept in tenths of a unit, so that the *)
(* comparisons of lines 129 and 131 are exact: delta > tolerance is        *)
(* delta * 10 > data_vol_max * 9.  Binary floating-point rounding is not   *)
(* modelled.  data_rad is kept in micro-radians, the six decimals that     *)
(* '{:.6f}' prints.                                                        *)
(*                                                                         *)
(* Python unwinds synchronously: once an exception is raised, the matching *)
(* except clause and the finally block run to completion before main       *)
(* returns, so raising, handling and cleanup are one step (Exit).  When    *)
(* main has returned its frame is gone: the locals, and the history        *)
(* variables that observe them, are dropped; what stays is what the        *)
(* outside world saw (device calls, terminal output, escaped exception).   *)
(***************************************************************************)
EXTENDS Integers, Sequences, FiniteSets, TLC

\* ---------------------------------------------------------------- bounds
MaxIter == 2
MaxDevices == 2
MaxRanges == 1
MaxChans == 3

\* Channel counts the device may report (get_num_chans_by_mode).
NumChans == 0..MaxChans
\* Readings of channel 0 (the reference) and of the other channels.
RefVolts == {-5, 0, 10}
Volts == {0, 1, 10}

\* ------------------------------------------------------ program constants
LOW_CHANNEL == 0
HIGH_CHANNEL == 7
RANGE_INDEX == 0
TOLERANCE_NUM == 9
TOLERANCE_DEN == 10
TWO_PI_MICRO == 6283185

Channels == 0..HIGH_CHANNEL
LoopCaught == {"ValueError", "NameError", "SyntaxError"}
CollaboratorFaults == {"ValueError", "ULException"}

VARIABLES
  pc,             \* position in main
  daq_device,     \* TRUE once DaqDevice(...) has been created (line 58)
  connected,      \* the device's connection state (is_connected())
  range_index, high_channel, channel,
  data_vol_pre, data_vol_incr, tolerance, data_vol_max, data_vol, data_rad,
  reads,          \* a_in calls of the current phase/iteration: <<channel, value>>
  output,         \* channel lines printed in the current iteration: [ch, rad]
  calls,          \* calls made on daq_device by the finally block
  errorPrinted,   \* line 147 has printed the RuntimeError
  raised,         \* kind of the exception that ended the run ("none": none yet)
  raised_at,      \* where it was raised: "setup", "sampling" or "loop"
  propagated,     \* kind of the exception that left main ("none": none)
  data_vol_init,  \* history: first sample of each channel (line 109)
  inTol,          \* history: every step of the channel so far was within tolerance
  ref_stable,     \* history: every reference reading so far had the same value
  iter            \* history: number of completed polling iterations

vars == <<pc, daq_device, connected, range_index, high_channel, channel,
          data_vol_pre, data_vol_incr, tolerance, data_vol_max, data_vol,
          data_rad, reads, output, calls, errorPrinted, raised, raised_at,
          propagated, data_vol_init, inTol, ref_stable, iter>>

frame == <<range_index, high_channel, channel, data_vol_pre, data_vol_incr,
           tolerance, data_vol_max, data_vol, data_rad, data_vol_init, inTol,
           ref_stable, iter>>

exitState == <<calls, errorPrinted, raised, raised_at, propagated>>

Zeros == [c \in Channels |-> 0]

Abs(x) == IF x < 0 THEN -x ELSE x

\* n / d rounded to the nearest integer (d # 0).
RoundDiv(n, d) ==
  LET s == IF (n < 0) = (d < 0) THEN 1 ELSE -1
  IN  s * ((2 * Abs(n) + Abs(d)) \div (2 * Abs(d)))

\* ------------------------------------------------------- pure computations

\* data_rad of line 135, in micro-radians: incr / data_vol_max * 2 * pi.
Rad(incr, max) == RoundDiv(incr * TWO_PI_MICRO, max)

IncrementGe(delta, max, tol) ==
  IF delta * TOLERANCE_DEN >= tol THEN delta - max
  ELSE IF delta * TOLERANCE_DEN < -1 * tol THEN delta + max
  ELSE delta

IncrementLe(delta, max, tol) ==
  IF delta * TOLERANCE_DEN > tol THEN delta - max
  ELSE IF delta * TOLERANCE_DEN <= -1 * tol THEN delta + max
  ELSE delta

IncrementByTolerance(delta, max, tol) ==
  IF delta * TOLERANCE_DEN > tol THEN delta - tol \div TOLERANCE_DEN
  ELSE IF delta * TOLERANCE_DEN < -1 * tol THEN delta + tol \div TOLERANCE_DEN
  ELSE delta

\* Lines 129-134: what is added to data_vol_incr[channel] for a step delta,
\* with tol = data_vol_max * 9 in tenths of a unit.
Increment(delta, max, tol) ==
  IF delta * TOLERANCE_DEN > tol THEN delta - max
  ELSE IF delta * TOLERANCE_DEN < -1 * tol THEN delta + max
  ELSE delta

StorePreSkipped(pre, c, v) == pre

\* Line 136: data_vol_pre[channel] = data_vol.
StorePre(pre, c, v) == [pre EXCEPT ![c] = v]

NextReferenceFixed(prev, v, n) == IF n = 0 THEN v ELSE prev

\* Lines 119-121: data_vol_max is re-read from channel 0 in every iteration.
NextReference(prev, v, n) == v

FirstChannelLow == LOW_CHANNEL

\* Line 125: the polling loop starts at low_channel + 1.
FirstChannel == LOW_CHANNEL + 1

\* Which try block encloses the current position.
Site ==
  IF pc = "sample" THEN "sampling"
  ELSE IF pc \in {"ref", "read"} THEN "loop"
  ELSE "setup"

ExceptClauseBroad(kind, site) ==
  IF site = "loop" /\ kind # "KeyboardInterrupt" THEN "break"
  ELSE IF site \in {"sampling", "loop"} /\ kind = "KeyboardInterrupt" THEN "pass"
  ELSE IF kind = "RuntimeError" THEN "print"
  ELSE "propagate"

ExceptClauseLoopOnly(kind, site) ==
  IF site = "loop" /\ kind \in LoopCaught THEN "break"
  ELSE IF site = "loop" /\ kind = "KeyboardInterrupt" THEN "pass"
  ELSE IF kind = "RuntimeError" THEN "print"
  ELSE "propagate"

\* Lines 141-147: the except clause that takes an exception of this kind
\* raised at this site.  "break": line 142 ends the loop; "pass": line 144;
\* "print": line 147; "propagate": no clause matches, it leaves main.
ExceptClause(kind, site) ==
  IF site = "loop" /\ kind \in LoopCaught THEN "break"
  ELSE IF site \in {"sampling", "loop"} /\ kind = "KeyboardInterrupt" THEN "pass"
  ELSE IF kind = "RuntimeError" THEN "print"
  ELSE "propagate"

CleanupAlwaysDisconnect(dev, conn) ==
  IF dev
    THEN IF conn THEN <<"is_connected=True", "disconnect", "release">>
                 ELSE <<"is_connected=False", "disconnect", "release">>
    ELSE <<>>

\* Lines 149-153: the calls the finally block makes, given whether the handle
\* was created and whether the device is connected.
Cleanup(dev, conn) ==
  IF dev
    THEN IF conn THEN <<"is_connected=True", "disconnect", "release">>
                 ELSE <<"is_connected=False", "release">>
    ELSE <<>>

\* ------------------------------------------------------------------ state

FrameInit ==
  /\ range_index = RANGE_INDEX
  /\ high_channel = HIGH_CHANNEL
  /\ channel = LOW_CHANNEL
  /\ data_vol_pre = Zeros
  /\ data_vol_incr = Zeros
  /\ tolerance = 0
  /\ data_vol_max = 0
  /\ data_vol = 0
  /\ data_rad = 0
  /\ data_vol_init = Zeros
  /\ inTol = [c \in Channels |-> TRUE]
  /\ ref_stable = TRUE
  /\ iter = 0

\* main returns: its locals, and the history of them, are gone.
DropFrame ==
  /\ range_index' = RANGE_INDEX
  /\ high_channel' = HIGH_CHANNEL
  /\ channel' = LOW_CHANNEL
  /\ data_vol_pre' = Zeros
  /\ data_vol_incr' = Zeros
  /\ tolerance' = 0
  /\ data_vol_max' = 0
  /\ data_vol' = 0
  /\ data_rad' = 0
  /\ data_vol_init' = Zeros
  /\ inTol' = [c \in Channels |-> TRUE]
  /\ ref_stable' = TRUE
  /\ iter' = 0

Init ==
  /\ pc = "open"
  /\ daq_device = FALSE
  /\ connected = FALSE
  /\ FrameInit
  /\ reads = <<>>
  /\ output = <<>>
  /\ calls = <<>>
  /\ errorPrinted = FALSE
  /\ raised = "none"
  /\ raised_at = "none"
  /\ propagated = "none"

\* An exception of this kind is raised at the current position, with the
\* handle created or not (dev) and the device connected or not (conn): the
\* matching except clause runs, then the finally block, then main returns.
Exit(kind, dev, conn) ==
  /\ pc' = "done"
  /\ raised' = kind
  /\ raised_at' = Site
  /\ errorPrinted' = (ExceptClause(kind, Site) = "print")
  /\ propagated' = IF ExceptClause(kind, Site) = "propagate" THEN kind ELSE "none"
  /\ calls' = Cleanup(dev, conn)
  /\ daq_device' = dev
  /\ connected' = IF dev THEN FALSE ELSE conn
  /\ DropFrame

\* ---------------------------------------------------------------- actions

\* Lines 40-58: inventory, selection prompt, DaqDevice(...).
OpenDevice ==
  /\ pc = "open"
  /\ \E n \in 0..MaxDevices, parses \in BOOLEAN, idx \in -1..MaxDevices :
       IF n = 0 THEN
         Exit("RuntimeError", FALSE, FALSE) /\ UNCHANGED <<reads, output>>
       ELSE IF ~parses THEN
         Exit("ValueError", FALSE, FALSE) /\ UNCHANGED <<reads, output>>
       ELSE IF idx \notin 0..(n - 1) THEN
         Exit("RuntimeError", FALSE, FALSE) /\ UNCHANGED <<reads, output>>
       ELSE
         /\ daq_device' = TRUE
         /\ pc' = "get_ai"
         /\ UNCHANGED <<connected, frame, reads, output, exitState>>

\* Lines 61-64: get_ai_device() may return None.
GetAiDevice ==
  /\ pc = "get_ai"
  /\ \E supported \in BOOLEAN :
       IF supported THEN
         /\ pc' = "connect"
         /\ UNCHANGED <<daq_device, connected, frame, reads, output, exitState>>
       ELSE
         Exit("RuntimeError", TRUE, FALSE) /\ UNCHANGED <<reads, output>>

\* Lines 67-71: connect() succeeds or raises.
Connect ==
  /\ pc = "connect"
  /\ \E ok \in BOOLEAN :
       IF ok THEN
         /\ connected' = TRUE
         /\ pc' = "configure"
         /\ UNCHANGED <<daq_device, frame, reads, output, exitState>>
       ELSE
         Exit("ULException", TRUE, FALSE) /\ UNCHANGED <<reads, output>>

\* Lines 73-101: input mode, channel count, ranges, banner, prompt.
Configure ==
  /\ pc = "configure"
  /\ \E n \in NumChans, nr \in 0..MaxRanges :
       IF nr = 0 THEN
         \* range_index becomes -1 and ranges[range_index] (line 95) fails
         Exit("IndexError", TRUE, connected) /\ UNCHANGED <<reads, output>>
       ELSE
         /\ high_channel' = IF high_channel >= n THEN n - 1 ELSE high_channel
         /\ range_index' = IF range_index >= nr THEN nr - 1 ELSE range_index
         /\ channel' = LOW_CHANNEL
         /\ pc' = "sample"
         /\ UNCHANGED <<daq_device, connected, data_vol_pre, data_vol_incr,
                        tolerance, data_vol_max, data_vol, data_rad, reads,
                        output, exitState, data_vol_init, inTol, ref_stable, iter>>

SampleSet(c) == IF c = 0 THEN RefVolts ELSE Volts

\* Lines 108-111: one initial sample of the next channel.
SampleChannel ==
  /\ pc = "sample"
  /\ channel <= high_channel
  /\ \E v \in SampleSet(channel) :
       /\ data_vol_pre' = [data_vol_pre EXCEPT ![channel] = v]
       /\ data_vol_init' = [data_vol_init EXCEPT ![channel] = v]
       /\ reads' = Append(reads, <<channel, v>>)
  /\ channel' = channel + 1
  /\ UNCHANGED <<pc, daq_device, connected, range_index, high_channel,
                 data_vol_incr, tolerance, data_vol_max, data_vol, data_rad,
                 output, exitState, inTol, ref_stable, iter>>

\* Line 113: the initial sampling is over, the polling loop is entered.
StartLoop ==
  /\ pc = "sample"
  /\ channel > high_channel
  /\ pc' = "ref"
  /\ UNCHANGED <<daq_device, connected, frame, reads, output, exitState>>

\* Lines 115-122: a new iteration reads the reference from channel 0.
ReadReference ==
  /\ pc = "ref"
  /\ iter < MaxIter
  /\ \E v \in RefVolts :
       /\ data_vol_max' = NextReference(data_vol_max, v, iter)
       /\ tolerance' = NextReference(data_vol_max, v, iter) * TOLERANCE_NUM
       /\ reads' = << <<0, v>> >>
       /\ ref_stable' = IF iter = 0 THEN TRUE ELSE ref_stable /\ v = data_vol_max
  /\ output' = <<>>
  /\ channel' = FirstChannel
  /\ pc' = "read"
  /\ UNCHANGED <<daq_device, connected, range_index, high_channel, data_vol_pre,
                 data_vol_incr, data_vol, data_rad, exitState, data_vol_init,
                 inTol, iter>>

\* Lines 126-138: read the channel, unwrap, convert, store, print.
ProcessChannel ==
  /\ pc = "read"
  /\ channel <= high_channel
  /\ \E v \in Volts :
       LET delta == v - data_vol_pre[channel]
           incr  == data_vol_incr[channel] + Increment(delta, data_vol_max, tolerance)
       IN  /\ reads' = Append(reads, <<channel, v>>)
           /\ IF data_vol_max = 0 THEN
                \* line 135 divides by zero, after lines 129-134 have run
                Exit("ZeroDivisionError", TRUE, connected) /\ UNCHANGED output
              ELSE
                /\ data_vol' = v
                /\ data_vol_incr' = [data_vol_incr EXCEPT ![channel] = incr]
                /\ data_rad' = Rad(incr, data_vol_max)
                /\ data_vol_pre' = StorePre(data_vol_pre, channel, v)
                /\ output' = Append(output, [ch |-> channel,
                                             rad |-> Rad(incr, data_vol_max)])
                /\ inTol' = [inTol EXCEPT ![channel] =
                               @ /\ Abs(delta) * TOLERANCE_DEN <= tolerance]
                /\ channel' = channel + 1
                /\ UNCHANGED <<pc, daq_device, connected, range_index,
                               high_channel, tolerance, data_vol_max, exitState,
                               data_vol_init, ref_stable, iter>>

\* Line 140: every channel is done, the iteration ends.
EndIteration ==
  /\ pc = "read"
  /\ channel > high_channel
  /\ iter' = iter + 1
  /\ pc' = "ref"
  /\ UNCHANGED <<daq_device, connected, range_index, high_channel, channel,
                 data_vol_pre, data_vol_incr, tolerance, data_vol_max, data_vol,
                 data_rad, reads, output, exitState, data_vol_init, inTol,
                 ref_stable>>

\* Lines 109, 119, 126: a_in raises instead of returning a value; the device
\* may have dropped its connection by then.
AInFault ==
  /\ \/ pc = "sample" /\ channel <= high_channel
     \/ pc = "ref" /\ iter < MaxIter
     \/ pc = "read" /\ channel <= high_channel
  /\ \E kind \in CollaboratorFaults, lost \in BOOLEAN :
       Exit(kind, TRUE, connected /\ ~lost)
  /\ UNCHANGED <<reads, output>>

\* CTRL + C arrives between two steps.
Interrupt ==
  /\ pc # "done"
  /\ Exit("KeyboardInterrupt", daq_device, connected)
  /\ UNCHANGED <<reads, output>>

Next ==
  \/ OpenDevice
  \/ GetAiDevice
  \/ Connect
  \/ Configure
  \/ SampleChannel
  \/ StartLoop
  \/ ReadReference
  \/ ProcessChannel
  \/ EndIteration
  \/ AInFault
  \/ Interrupt

Spec == Init /\ [][Next]_vars


\* ------------------------------------------------------------- properties

\* A step in which lines 126-138 ran to the end for the current channel.
ChannelStep == pc = "read" /\ pc' = "read" /\ channel' = channel + 1

\* The polling iteration is complete (all channels done, line 140 is next).
IterationDone == pc = "read" /\ channel > high_channel

\* accumulated voltage minus net raw voltage change of channel c
Residue(c) == data_vol_incr[c] - (data_vol_pre[c] - data_vol_init[c])

\* C1: for the channel just processed, with delta = new sample - previous
\* sample and tolerance = 0.9 * data_vol_max: the accumulator grows by
\* delta - data_vol_max if delta > tolerance, else by delta + data_vol_max if
\* delta < -tolerance, else (ties included) by delta; no other channel's
\* accumulator changes.
C1_ThreeBranches ==
  [][ChannelStep =>
       LET c     == channel
           delta == data_vol' - data_vol_pre[c]
           grow  == data_vol_incr'[c] - data_vol_incr[c]
           up    == delta * 10 > data_vol_max * 9
           down  == delta * 10 < -(data_vol_max * 9)
       IN  /\ up => grow = delta - data_vol_max
           /\ (~up /\ down) => grow = delta + data_vol_max
           /\ (~up /\ ~down) => grow = delta
           /\ \A d \in Channels \ {c} : data_vol_incr'[d] = data_vol_incr[d]
     ]_vars

\* C1 witness: a step of exactly +tolerance (1 -> 10 with reference 10) was
\* added uncompensated.
C1_Witness ==
  /\ pc = "read" /\ iter = 0 /\ channel = 2
  /\ data_vol_max = 10 /\ data_vol_init[1] = 1 /\ data_vol_pre[1] = 10
  /\ data_vol_incr[1] = 9

\* C2: while every step of a channel stayed within the tolerance of its
\* iteration, the accumulator is the net change v_n - v_0 and the angle
\* printed is that change times 2*pi / data_vol_max.
C2_NoWrapSum ==
  pc \in {"ref", "read"} =>
    /\ \A c \in (LOW_CHANNEL + 1)..high_channel :
         inTol[c] => data_vol_incr[c] = data_vol_pre[c] - data_vol_init[c]
    /\ \A k \in DOMAIN output :
         inTol[output[k].ch] =>
           output[k].rad =
             RoundDiv((data_vol_pre[output[k].ch] - data_vol_init[output[k].ch])
                        * TWO_PI_MICRO, data_vol_max)

\* C2 witness: 0 -> 1 -> 10 under reference 10: steps 1 and 9, sum 10.
C2_Witness ==
  /\ IterationDone /\ iter = 1 /\ high_channel >= 1
  /\ inTol[1] /\ data_vol_init[1] = 0 /\ data_vol_incr[1] = 10
  /\ output[1] = [ch |-> 1, rad |-> TWO_PI_MICRO]

\* C3 (as claimed): a sample equal to the previous one leaves the channel's
\* accumulator unchanged, whatever the reference reading is.
C3_ZeroDeltaUnchanged ==
  [][(ChannelStep /\ data_vol' = data_vol_pre[channel]) =>
       data_vol_incr'[channel] = data_vol_incr[channel]]_vars

C6_CleanupCalls ==
  /\ pc # "done" => calls = <<>>
  /\ pc = "done" =>
       /\ daq_device => calls \in {<<"is_connected=True", "disconnect", "release">>,
                                   <<"is_connected=False", "release">>}
       /\ ~daq_device => calls = <<>>
       /\ raised = "RuntimeError" =>
            /\ errorPrinted /\ reads = <<>>
            /\ calls \in {<<>>, <<"is_connected=False", "release">>}
       /\ raised # "RuntimeError" => ~errorPrinted
       /\ connected = FALSE

\* C6 witness: a device error in the loop with the connection lost: released
\* without disconnect.
C6_Witness ==
  /\ pc = "done" /\ raised = "ULException" /\ raised_at = "loop"
  /\ daq_device /\ calls = <<"is_connected=False", "release">>

\* C7: a KeyboardInterrupt during the initial sampling or the polling loop
\* ends main with no further a_in call or channel line, no error message,
\* nothing propagated, and the handle released.
C7_InterruptStopsLoop ==
  /\ [](pc = "done" /\ raised = "KeyboardInterrupt"
          /\ raised_at \in {"sampling", "loop"} =>
            /\ propagated = "none" /\ ~errorPrinted
            /\ Len(calls) > 0 /\ calls[Len(calls)] = "release")
  /\ [][(raised' = "KeyboardInterrupt" \/ pc = "done") =>
          (reads' = reads /\ output' = output)]_vars

\* C7 witness: interrupted during the initial sampling, after one sample.
C7_Witness ==
  /\ pc = "done" /\ raised = "KeyboardInterrupt" /\ raised_at = "sampling"
  /\ Len(reads) = 1 /\ propagated = "none"
\* The value the current iteration read from channel c.
LastRead(c) == reads[CHOOSE k \in DOMAIN reads : reads[k][1] = c][2]

\* Before the first iteration every channel low_channel..high_channel has
\* been sampled exactly once, in order, and holds that sample.
SampledOnce ==
  (pc = "ref" /\ iter = 0) =>
    /\ Len(reads) = (IF high_channel >= LOW_CHANNEL
                       THEN high_channel - LOW_CHANNEL + 1 ELSE 0)
    /\ \A k \in DOMAIN reads :
         reads[k] = <<LOW_CHANNEL + k - 1, data_vol_pre[LOW_CHANNEL + k - 1]>>

\* C8 (as claimed): previous_voltage of every channel low_channel..
\* high_channel is initialised from one sample and, after every completed
\* iteration, equals the value most recently read from that channel.
C8_AllChannelsTrackLastRead ==
  /\ SampledOnce
  /\ IterationDone =>
       \A c \in LOW_CHANNEL..high_channel : data_vol_pre[c] = LastRead(c)

\* C8 (amended): previous_voltage of every channel low_channel..high_channel
\* is initialised from one sample; after every completed iteration it equals
\* the value most recently read for each channel low_channel+1..high_channel,
\* while that of low_channel, read as the reference only, keeps its initial
\* sample.
C8_LoopChannelsTrackLastRead ==
  /\ SampledOnce
  /\ IterationDone =>
       /\ \A c \in (LOW_CHANNEL + 1)..high_channel : data_vol_pre[c] = LastRead(c)
       /\ data_vol_pre[LOW_CHANNEL] = data_vol_init[LOW_CHANNEL]

\* C8 witness: second iteration complete, channel 1 moved away from its
\* initial sample, the reference reading differs from channel 0's initial one.
C8_Witness ==
  /\ IterationDone /\ iter = 1 /\ high_channel = 2
  /\ data_vol_pre[1] # data_vol_init[1] /\ data_vol_pre[1] = LastRead(1)
  /\ LastRead(0) # data_vol_pre[0]

\* C9: in an iteration channel 0 is read once, first; that reading is
\* data_vol_max and gives the tolerance; every angle printed in the iteration
\* is the channel's accumulator (increment included) / that reading * 2*pi.
C9_ReferencePerIteration ==
  pc = "read" =>
    /\ Len(reads) >= 1 /\ reads[1][1] = 0
    /\ \A k \in 2..Len(reads) : reads[k][1] # 0
    /\ data_vol_max = reads[1][2]
    /\ tolerance * 10 = reads[1][2] * 9 * TOLERANCE_DEN
    /\ \A k \in DOMAIN output :
         output[k].rad =
           RoundDiv(data_vol_incr[output[k].ch] * TWO_PI_MICRO, reads[1][2])

\* C9 witness: the reference changed from 10 to -5 between two iterations
\* and the whole accumulated total (1 + 5 = 6) is scaled by the new one.
C9_Witness ==
  /\ pc = "read" /\ iter = 1 /\ ~ref_stable /\ data_vol_max = -5
  /\ Len(output) = 1 /\ data_vol_incr[1] = 6
  /\ output[1].rad = -7539822

\* C10: with the same reference M in every iteration, accumulator minus net
\* raw change is a whole multiple of M for every loop channel; a channel step
\* changes it by -M, 0 or +M; and while main runs the accumulator changes
\* only by the step of the channel being processed.
C10_WholeWraps ==
  /\ [](pc \in {"ref", "read"} /\ ref_stable =>
          \A c \in (LOW_CHANNEL + 1)..high_channel :
            \E k \in -(MaxIter + 1)..(MaxIter + 1) :
              Residue(c) = k * data_vol_max)
  /\ [][ChannelStep =>
          LET c   == channel
              new == data_vol_incr'[c] - (data_vol_pre'[c] - data_vol_init'[c])
          IN  (new - Residue(c)) \in {-data_vol_max, 0, data_vol_max}]_vars
  /\ [][(pc' # "done" /\ data_vol_incr' # data_vol_incr) =>
          /\ ChannelStep
          /\ \A d \in Channels \ {channel} : data_vol_incr'[d] = data_vol_incr[d]
       ]_vars

\* C10 witness: reference 10 twice; one upward wrap then an ordinary step
\* leave the accumulator one full scale below the net raw change.
C10_Witness ==
  /\ IterationDone /\ iter = 1 /\ ref_stable /\ data_vol_max = 10
  /\ high_channel >= 1 /\ Residue(1) = -10 /\ data_vol_pre[1] = 1
====
